---- MODULE Spec2Model ----
(***************************************************************************)
(* Model of accelerate's data_loader.py: BatchSamplerShard (construction,  *)
(* __len__, _iter_with_split, _iter_with_no_split) and the part of         *)
(* prepare_data_loader that validates the configuration and decides        *)
(* whether a BatchSamplerShard is built.                                   *)
(*                                                                         *)
(* One pass of one upstream batch sampler is sharded over num_processes    *)
(* processes.  Every process owns its BatchSamplerShard instance and its   *)
(* generator frame (idx, batch, initial_data, batch_to_yield,              *)
(* cycle_index); the instances share nothing, so the model runs the        *)
(* processes one at a time, in any order.                                  *)
(***************************************************************************)
EXTENDS Integers, Sequences, FiniteSets, TLC

\* ---------------------------------------------------------------- bounds
MaxProcs == 3
MaxBatchSize == 4
MaxLen == 6

VARIABLES
    batch_sampler,   \* the upstream pass: the sequence of batches it produces
    batch_size,      \* batch_sampler.batch_size
    drop_last,       \* batch_sampler.drop_last
    num_processes,
    split_batches,
    pc,              \* per process: where its construction / generator stands
    shard,           \* per process: what new_batch_sampler is
    idx,             \* per process: the generator's local idx (-1: unbound)
    batch,           \* per process: the generator's local batch
    initial_data,    \* per process: the generator's local initial_data
    batch_to_yield,  \* per process: the generator's local batch_to_yield
    cycle_index,     \* per process: the generator's local cycle_index
    out              \* per process: the batches yielded so far, in order

config == <<batch_sampler, batch_size, drop_last, num_processes, split_batches>>
locals == <<idx, batch, initial_data, batch_to_yield, cycle_index>>
vars == <<batch_sampler, batch_size, drop_last, num_processes, split_batches,
          pc, shard, idx, batch, initial_data, batch_to_yield, cycle_index, out>>

Procs == 0 .. (num_processes - 1)

Terminal == {"done", "ValueError", "UnboundLocalError"}

\* ------------------------------------------------------- python helpers
Min(a, b) == IF a < b THEN a ELSE b

\* the list [a, a+1, ..., a+n-1]
Range(a, n) == [i \in 1 .. n |-> a + i - 1]

\* s[a:b] for 0 <= a <= b: python clamps the slice to the list's length
Slice(s, a, b) == SubSeq(s, a + 1, Min(b, Len(s)))

\* The upstream pass: len batches of consecutive sample indices, each of
\* batch_size indices except the final one, which holds last indices.
Upstream(bs, len, last) ==
    [p \in 1 .. len |-> Range((p - 1) * bs, IF p = len THEN last ELSE bs)]

\* len(self.batch_sampler)
UpstreamLen == Len(batch_sampler)

\* ------------------------------------------------ BatchSamplerShard code
\* __init__ / prepare_data_loader: the divisibility sanity check
\* (variant: the check left out)
BadSplitNoCheck == FALSE

BadSplit == split_batches /\ batch_size % num_processes # 0

\* __len__
ShardLen ==
    IF UpstreamLen % num_processes = 0
    THEN UpstreamLen \div num_processes
    ELSE IF drop_last
         THEN UpstreamLen \div num_processes
         ELSE (UpstreamLen \div num_processes) + 1

\* _iter_with_split: batch_length
BatchLength == batch_size \div num_processes

\* batch[batch_length * process_index : batch_length * (process_index + 1)]
\* (variant: process_index dropped from the slice)
ShardSliceFirst(b, w) == Slice(b, 0, BatchLength)

ShardSlice(b, w) == Slice(b, BatchLength * w, BatchLength * (w + 1))

\* while len(initial_data) < need: initial_data += initial_data
\* (variants: an if in place of the while; no tiling at all)
RECURSIVE Tile(_, _)
TileOnce(data, need) == IF Len(data) < need THEN data \o data ELSE data

TileNone(data, need) == data

Tile(data, need) == IF Len(data) < need THEN Tile(data \o data, need) ELSE data

\* _iter_with_no_split: "if not self.drop_last and idx < self.num_processes"
Gathers(i) == ~drop_last /\ i < num_processes

\* "if idx % self.num_processes == self.process_index"
\* (variant: off by one position)
IsMineNext(i, w) == (i + 1) % num_processes = w

IsMine(i, w) == i % num_processes = w

\* "if idx % self.num_processes == self.num_processes - 1 and len(batch) == self.batch_size"
\* (variants: the size test left out; the position test left out)
RoundCompleteAnySize(i, b) == i % num_processes = num_processes - 1

RoundCompleteEager(i, b) == Len(b) = batch_size

RoundComplete(i, b) ==
    i % num_processes = num_processes - 1 /\ Len(b) = batch_size

\* "while idx % self.num_processes != 0 or len(batch) > 0"
\* (variant: the position test left out)
CycleContinuesOnlyShort(i, b) == Len(b) > 0

CycleContinues(i, b) == i % num_processes # 0 \/ Len(b) > 0

\* _iter_with_split: the tail condition after the loop
\* (variant: the size test left out)
SplitTailAlways(w) == ~drop_last /\ Len(initial_data[w]) > 0

SplitTailCond(w) ==
    ~drop_last /\ Len(initial_data[w]) > 0 /\ Len(batch[w]) < batch_size

\* ------------------------------------------------------------------ Init
Configs ==
    { c \in [n : 1 .. MaxProcs, bs : 1 .. MaxBatchSize, len : 0 .. MaxLen,
             last : 1 .. MaxBatchSize, drop : BOOLEAN, split : BOOLEAN] :
        /\ c.last <= c.bs
        /\ (c.len = 0 => c.last = c.bs) }

InitWith(c) ==
    /\ num_processes = c.n
    /\ batch_size = c.bs
    /\ drop_last = c.drop
    /\ split_batches = c.split
    /\ batch_sampler = Upstream(c.bs, c.len, c.last)
    /\ pc = [w \in 0 .. (c.n - 1) |-> "new"]
    /\ shard = [w \in 0 .. (c.n - 1) |-> "none"]
    /\ idx = [w \in 0 .. (c.n - 1) |-> -1]
    /\ batch = [w \in 0 .. (c.n - 1) |-> <<>>]
    /\ initial_data = [w \in 0 .. (c.n - 1) |-> <<>>]
    /\ batch_to_yield = [w \in 0 .. (c.n - 1) |-> <<>>]
    /\ cycle_index = [w \in 0 .. (c.n - 1) |-> 0]
    /\ out = [w \in 0 .. (c.n - 1) |-> <<>>]

\* Any upstream whose batches are full except possibly the final one.
InitAnyTail == \E c \in Configs : InitWith(c)

\* An upstream that honours its own drop_last, as torch's BatchSampler does:
\* with drop_last it never produces a short batch.
Init == \E c \in Configs : (c.drop => c.last = c.bs) /\ InitWith(c)

\* --------------------------------------------------------------- actions
\* The processes run one at a time: w may start once no other process is
\* between its construction and its end.
Idle(w) == \A v \in Procs \ {w} : pc[v] \in {"new"} \cup Terminal

\* BatchSamplerShard(batch_sampler, num_processes, process_index=w, split_batches)
Construct(w) ==
    /\ pc[w] = "new"
    /\ Idle(w)
    /\ IF BadSplit
       THEN /\ pc' = [pc EXCEPT ![w] = "ValueError"]
            /\ shard' = shard
       ELSE /\ pc' = [pc EXCEPT ![w] = "ready"]
            /\ shard' = [shard EXCEPT ![w] = "BatchSamplerShard"]
    /\ UNCHANGED <<config, locals, out>>

\* prepare_data_loader(dataloader, num_processes, process_index=w, split_batches)
PrepareDataLoader(w) ==
    /\ pc[w] = "new"
    /\ Idle(w)
    /\ IF BadSplit
       THEN /\ pc' = [pc EXCEPT ![w] = "ValueError"]
            /\ shard' = shard
       ELSE IF num_processes = 1
            THEN /\ pc' = [pc EXCEPT ![w] = "unsharded"]
                 /\ shard' = [shard EXCEPT ![w] = "upstream"]
            ELSE /\ pc' = [pc EXCEPT ![w] = "ready"]
                 /\ shard' = [shard EXCEPT ![w] = "BatchSamplerShard"]
    /\ UNCHANGED <<config, locals, out>>

\* __iter__: picks the generator; its frame starts with the empty locals
Iter(w) ==
    /\ pc[w] = "ready"
    /\ pc' = [pc EXCEPT ![w] = IF split_batches THEN "split" ELSE "nosplit"]
    /\ initial_data' = [initial_data EXCEPT ![w] = <<>>]
    /\ batch_to_yield' = [batch_to_yield EXCEPT ![w] = <<>>]
    /\ UNCHANGED <<config, shard, idx, batch, cycle_index, out>>

\* _iter_with_split: one iteration of the for loop
SplitLoop(w) ==
    /\ pc[w] = "split"
    /\ idx[w] + 1 < UpstreamLen
    /\ LET i == idx[w] + 1
           b == batch_sampler[i + 1]
       IN /\ idx' = [idx EXCEPT ![w] = i]
          /\ batch' = [batch EXCEPT ![w] = b]
          /\ initial_data' = [initial_data EXCEPT ![w] = IF i = 0 THEN b ELSE @]
          /\ out' = [out EXCEPT ![w] =
                        IF Len(b) = batch_size THEN Append(@, ShardSlice(b, w)) ELSE @]
    /\ UNCHANGED <<config, pc, shard, batch_to_yield, cycle_index>>

\* _iter_with_split: the upstream is exhausted; the code after the loop.
\* initial_data is the first batch's own list (initial_data = batch), so when
\* the final batch is the first one (idx = 0) the in-place += grows batch too.
SplitTail(w) ==
    /\ pc[w] = "split"
    /\ idx[w] + 1 = UpstreamLen
    /\ IF drop_last \/ Len(initial_data[w]) = 0
       THEN /\ pc' = [pc EXCEPT ![w] = "done"]
            /\ UNCHANGED <<batch, initial_data, out>>
       ELSE IF idx[w] < 0
            THEN /\ pc' = [pc EXCEPT ![w] = "UnboundLocalError"]
                 /\ UNCHANGED <<batch, initial_data, out>>
            ELSE IF SplitTailCond(w)
                 THEN LET tiled == Tile(initial_data[w], batch_size)
                          last == IF idx[w] = 0 THEN tiled ELSE batch[w]
                          b == last \o tiled
                      IN /\ initial_data' = [initial_data EXCEPT ![w] = tiled]
                         /\ batch' = [batch EXCEPT ![w] = b]
                         /\ out' = [out EXCEPT ![w] = Append(@, ShardSlice(b, w))]
                         /\ pc' = [pc EXCEPT ![w] = "done"]
                 ELSE /\ pc' = [pc EXCEPT ![w] = "done"]
                      /\ UNCHANGED <<batch, initial_data, out>>
    /\ UNCHANGED <<config, shard, idx, batch_to_yield, cycle_index>>

\* _iter_with_no_split: one iteration of the for loop
NoSplitLoop(w) ==
    /\ pc[w] = "nosplit"
    /\ idx[w] + 1 < UpstreamLen
    /\ LET i == idx[w] + 1
           b == batch_sampler[i + 1]
           held == IF IsMine(i, w) THEN b ELSE batch_to_yield[w]
       IN /\ idx' = [idx EXCEPT ![w] = i]
          /\ batch' = [batch EXCEPT ![w] = b]
          /\ initial_data' = [initial_data EXCEPT ![w] = IF Gathers(i) THEN @ \o b ELSE @]
          /\ IF RoundComplete(i, b)
             THEN /\ out' = [out EXCEPT ![w] = Append(@, held)]
                  /\ batch_to_yield' = [batch_to_yield EXCEPT ![w] = <<>>]
             ELSE /\ out' = out
                  /\ batch_to_yield' = [batch_to_yield EXCEPT ![w] = held]
    /\ UNCHANGED <<config, pc, shard, cycle_index>>

\* _iter_with_no_split: the upstream is exhausted; the code after the loop
\* up to the while loop (the held batch, the tiling, the move past a full
\* final batch).
NoSplitTail(w) ==
    /\ pc[w] = "nosplit"
    /\ idx[w] + 1 = UpstreamLen
    /\ IF drop_last \/ Len(initial_data[w]) = 0
       THEN /\ pc' = [pc EXCEPT ![w] = "done"]
            /\ UNCHANGED <<idx, batch, initial_data, cycle_index, out>>
       ELSE IF idx[w] < 0
            THEN /\ pc' = [pc EXCEPT ![w] = "UnboundLocalError"]
                 /\ UNCHANGED <<idx, batch, initial_data, cycle_index, out>>
            ELSE LET full == Len(batch[w]) = batch_size
                 IN /\ out' = [out EXCEPT ![w] =
                                  IF Len(batch_to_yield[w]) = batch_size
                                  THEN Append(@, batch_to_yield[w]) ELSE @]
                    /\ initial_data' = [initial_data EXCEPT ![w] =
                                           Tile(@, num_processes * batch_size)]
                    /\ batch' = [batch EXCEPT ![w] = IF full THEN <<>> ELSE @]
                    /\ idx' = [idx EXCEPT ![w] = IF full THEN @ + 1 ELSE @]
                    /\ cycle_index' = [cycle_index EXCEPT ![w] = 0]
                    /\ pc' = [pc EXCEPT ![w] = "cycle"]
    /\ UNCHANGED <<config, shard, batch_to_yield>>

\* _iter_with_no_split: the while loop, one test of its condition and, when
\* it holds, one iteration
NoSplitCycle(w) ==
    /\ pc[w] = "cycle"
    /\ IF CycleContinues(idx[w], batch[w])
       THEN LET end_index == cycle_index[w] + batch_size - Len(batch[w])
                b == batch[w] \o Slice(initial_data[w], cycle_index[w], end_index)
            IN /\ out' = [out EXCEPT ![w] = IF IsMine(idx[w], w) THEN Append(@, b) ELSE @]
               /\ cycle_index' = [cycle_index EXCEPT ![w] = end_index]
               /\ batch' = [batch EXCEPT ![w] = <<>>]
               /\ idx' = [idx EXCEPT ![w] = @ + 1]
               /\ pc' = pc
       ELSE /\ pc' = [pc EXCEPT ![w] = "done"]
            /\ UNCHANGED <<idx, batch, cycle_index, out>>
    /\ UNCHANGED <<config, shard, initial_data, batch_to_yield>>

\* num_processes == 1 through prepare_data_loader: new_batch_sampler is the
\* upstream batch sampler itself, whose batches pass through unchanged.
Unsharded(w) ==
    /\ pc[w] = "unsharded"
    /\ IF idx[w] + 1 < UpstreamLen
       THEN /\ idx' = [idx EXCEPT ![w] = @ + 1]
            /\ out' = [out EXCEPT ![w] = Append(@, batch_sampler[idx[w] + 2])]
            /\ pc' = pc
       ELSE /\ pc' = [pc EXCEPT ![w] = "done"]
            /\ UNCHANGED <<idx, out>>
    /\ UNCHANGED <<config, shard, batch, initial_data, batch_to_yield, cycle_index>>

Next ==
    \E w \in Procs :
        \/ Construct(w)
        \/ PrepareDataLoader(w)
        \/ Iter(w)
        \/ SplitLoop(w)
        \/ SplitTail(w)
        \/ NoSplitLoop(w)
        \/ NoSplitTail(w)
        \/ NoSplitCycle(w)
        \/ Unsharded(w)

Spec == Init /\ [][Next]_vars

SpecAnyTail == InitAnyTail /\ [][Next]_vars

\* ======================================================================
\* Vocabulary of the properties.  Expected values are written out from the
\* upstream pass, not from the operators of the code above.
\* ======================================================================
\* process w built a BatchSamplerShard and its pass is over
Done(w) == shard[w] = "BatchSamplerShard" /\ pc[w] = "done"

AllDone == \A w \in Procs : Done(w)

RECURSIVE CountUpTo(_)
\* the batches yielded by processes 0 .. w, in total
CountUpTo(w) == IF w < 0 THEN 0 ELSE Len(out[w]) + CountUpTo(w - 1)

TotalYielded == CountUpTo(num_processes - 1)

\* the sample indices of a list of batches
Indices(bs) == UNION { { bs[k][i] : i \in 1 .. Len(bs[k]) } : k \in 1 .. Len(bs) }

RECURSIVE Flatten(_)
Flatten(bs) == IF Len(bs) = 0 THEN <<>> ELSE Head(bs) \o Flatten(Tail(bs))

\* the final upstream batch is short
LastShort == UpstreamLen > 0 /\ Len(batch_sampler[UpstreamLen]) < batch_size

\* the number of full upstream batches
NumFull == IF LastShort THEN UpstreamLen - 1 ELSE UpstreamLen

\* the number of rounds whose num_processes batches are all present and full
FullRounds == NumFull \div num_processes

\* the pass ends on a complete, full round: nothing to wrap around
EndsOnFullRound == ~LastShort /\ UpstreamLen % num_processes = 0

\* the first multiple of num_processes that is >= the upstream length
EndPos == ((UpstreamLen + num_processes - 1) \div num_processes) * num_processes

\* the slice length of SplitWithinBatch mode
SliceLen == batch_size \div num_processes

\* ----------------------------------------------------------------------
\* C1 (as stated): once every process has finished its pass, the batches
\* yielded by all processes together number a multiple of num_processes
\* when drop_last is false, and UpstreamLen - (UpstreamLen mod
\* num_processes) when drop_last is true, in both sharding modes.
C1_TotalAsStated ==
    AllDone =>
        IF drop_last
        THEN TotalYielded = UpstreamLen - (UpstreamLen % num_processes)
        ELSE TotalYielded % num_processes = 0

\* C1 (amended): the total is a multiple of num_processes in both modes and
\* under both policies; with drop_last (an upstream of full batches only) it
\* is UpstreamLen - (UpstreamLen mod num_processes) in WholeBatch mode and
\* num_processes * UpstreamLen in SplitWithinBatch mode.
C1_Total ==
    AllDone =>
        /\ TotalYielded % num_processes = 0
        /\ drop_last =>
              TotalYielded = IF split_batches
                             THEN num_processes * UpstreamLen
                             ELSE UpstreamLen - (UpstreamLen % num_processes)

C1_Witness ==
    /\ AllDone
    /\ num_processes = 3
    /\ UpstreamLen = 4
    /\ drop_last
    /\ ~split_batches
    /\ TotalYielded = 3

\* ----------------------------------------------------------------------
\* the index sets of the processes, and what is kept of the upstream
YieldedBy(w) == Indices(out[w])

KeptUpstream ==
    IF drop_last
    THEN Indices(SubSeq(batch_sampler, 1, FullRounds * num_processes))
    ELSE Indices(batch_sampler)

UnionIsKept == UNION { YieldedBy(w) : w \in Procs } = KeptUpstream

PairwiseDisjoint ==
    \A i \in Procs : \A j \in Procs : i # j => YieldedBy(i) \cap YieldedBy(j) = {}

\* C2 (as stated): in WholeBatch mode, after the pass, the index sets of
\* any two distinct processes are disjoint and their union is the upstream
\* indices (minus the dropped tail with drop_last).
C2_DisjointAsStated ==
    (AllDone /\ ~split_batches) => (PairwiseDisjoint /\ UnionIsKept)

\* C2 (amended): in WholeBatch mode the union is as stated, and the index
\* sets are pairwise disjoint whenever no wraparound batch is made, that is
\* with drop_last or when the pass ends on a complete round of full batches.
C2_Disjoint ==
    (AllDone /\ ~split_batches) =>
        /\ UnionIsKept
        /\ (drop_last \/ EndsOnFullRound) => PairwiseDisjoint

C2_Witness ==
    /\ AllDone
    /\ ~split_batches
    /\ num_processes = 2
    /\ UpstreamLen = 3
    /\ drop_last
    /\ YieldedBy(0) # {}
    /\ YieldedBy(1) # {}

\* ----------------------------------------------------------------------
\* C3: in SplitWithinBatch mode the k-th batch a process w yields is, for
\* every full upstream batch k, the contiguous slice [w*s, (w+1)*s) of that
\* batch, and once all processes are done the slices of processes
\* 0 .. num_processes-1 concatenated in order are the upstream batch.
C3_SplitSlices ==
    \A w \in Procs :
        (shard[w] = "BatchSamplerShard" /\ split_batches) =>
            /\ \A k \in 1 .. Len(out[w]) :
                  k <= NumFull =>
                      out[w][k] = Range((k - 1) * batch_size + w * SliceLen, SliceLen)
            /\ AllDone =>
                  \A k \in 1 .. NumFull :
                      /\ \A v \in Procs : Len(out[v]) >= k
                      /\ Flatten([v \in 1 .. num_processes |-> out[v - 1][k]])
                            = batch_sampler[k]

C3_Witness ==
    /\ AllDone
    /\ split_batches
    /\ num_processes = 2
    /\ batch_size = 4
    /\ UpstreamLen = 2
    /\ out[0] = << <<0, 1>>, <<4, 5>> >>
    /\ out[1] = << <<2, 3>>, <<6, 7>> >>

\* ----------------------------------------------------------------------
\* C4: every batch a BatchSamplerShard yields has batch_size indices in
\* WholeBatch mode and batch_size / num_processes in SplitWithinBatch mode,
\* and once all processes are done they have yielded equally many batches.
C4_Balance ==
    /\ \A w \in Procs :
          shard[w] = "BatchSamplerShard" =>
              \A k \in 1 .. Len(out[w]) :
                  Len(out[w][k]) = IF split_batches THEN SliceLen ELSE batch_size
    /\ AllDone => \A i \in Procs : \A j \in Procs : Len(out[i]) = Len(out[j])

C4_Witness ==
    /\ AllDone
    /\ ~split_batches
    /\ ~drop_last
    /\ num_processes = 3
    /\ batch_size = 2
    /\ UpstreamLen = 1
    /\ LastShort
    /\ \A w \in Procs : Len(out[w]) = 1

\* ----------------------------------------------------------------------
\* position p (0-based) of the upstream pass holds a full batch
FullAt(p) == p < UpstreamLen /\ Len(batch_sampler[p + 1]) = batch_size

\* C5: in WholeBatch mode, once process w is done, its k-th batch (0-based)
\* is the upstream batch at position k*num_processes + w whenever that
\* position holds a full batch and either round k is present and full or
\* drop_last is false; the batches of full rounds are there as soon as they
\* are yielded.
C5_RoundRobin ==
    \A w \in Procs :
        (shard[w] = "BatchSamplerShard" /\ ~split_batches) =>
            \A k \in 0 .. (UpstreamLen \div num_processes) :
                LET p == k * num_processes + w
                IN /\ (Len(out[w]) > k /\ k < FullRounds) => out[w][k + 1] = batch_sampler[p + 1]
                   /\ ( /\ Done(w)
                        /\ FullAt(p)
                        /\ (k < FullRounds \/ ~drop_last) ) =>
                          /\ Len(out[w]) > k
                          /\ out[w][k + 1] = batch_sampler[p + 1]

C5_Witness ==
    /\ ~split_batches
    /\ ~drop_last
    /\ num_processes = 3
    /\ UpstreamLen = 4
    /\ Done(0)
    /\ Done(1)
    /\ out[0] = << batch_sampler[1], batch_sampler[4] >>
    /\ out[1][1] = batch_sampler[2]

\* ----------------------------------------------------------------------
\* the wraparound of WholeBatch mode, written from the upstream pass
CycleSource == Flatten(SubSeq(batch_sampler, 1, Min(UpstreamLen, num_processes)))

\* element k (0-based) of the endless repetition of CycleSource
Cycled(k) == CycleSource[(k % Len(CycleSource)) + 1]

ShortTail == IF LastShort THEN batch_sampler[UpstreamLen] ELSE <<>>

\* the first incomplete position
FirstWrapPos == IF LastShort THEN UpstreamLen - 1 ELSE UpstreamLen

WrapBatch(p) ==
    IF p = FirstWrapPos
    THEN ShortTail \o [i \in 1 .. (batch_size - Len(ShortTail)) |-> Cycled(i - 1)]
    ELSE [i \in 1 .. batch_size |->
             Cycled((p - FirstWrapPos) * batch_size - Len(ShortTail) + i - 1)]

\* C6: WholeBatch mode without drop_last, a pass of at least one batch:
\* once process w is done, for every position p from the first incomplete
\* one up to the next multiple of num_processes with p mod num_processes =
\* w, the batch number p div num_processes of w is WrapBatch(p), the last
\* batch w yields, of batch_size indices.
C6_Wraparound ==
    \A w \in Procs :
        (Done(w) /\ ~split_batches /\ ~drop_last /\ UpstreamLen >= 1) =>
            /\ Len(out[w]) = EndPos \div num_processes
            /\ \A p \in FirstWrapPos .. (EndPos - 1) :
                  p % num_processes = w =>
                      /\ Len(out[w]) = (p \div num_processes) + 1
                      /\ out[w][(p \div num_processes) + 1] = WrapBatch(p)
                      /\ Len(out[w][(p \div num_processes) + 1]) = batch_size

\* the dataset has fewer than num_processes * batch_size samples and the
\* source is cycled more than once
C6_Witness ==
    /\ AllDone
    /\ ~split_batches
    /\ ~drop_last
    /\ num_processes = 3
    /\ batch_size = 4
    /\ UpstreamLen = 1
    /\ batch_sampler = << <<0>> >>
    /\ out[0] = << <<0, 0, 0, 0>> >>
    /\ out[2] = << <<0, 0, 0, 0>> >>

\* ----------------------------------------------------------------------
\* element k (0-based) of the short final batch followed by the first
\* upstream batch repeated endlessly
SplitWrapAt(k) ==
    IF k < Len(ShortTail)
    THEN ShortTail[k + 1]
    ELSE batch_sampler[1][((k - Len(ShortTail)) % Len(batch_sampler[1])) + 1]

\* C7: SplitWithinBatch mode, process w done: without drop_last and with a
\* short final batch w has yielded one slice per full batch and one more,
\* the last, which is positions [w*s, (w+1)*s) of the short final batch
\* followed by the first batch repeated; otherwise w has yielded one slice
\* per full batch and nothing else.
C7_SplitWraparound ==
    \A w \in Procs :
        (Done(w) /\ split_batches) =>
            IF ~drop_last /\ LastShort
            THEN /\ Len(out[w]) = NumFull + 1
                 /\ out[w][NumFull + 1] =
                        [i \in 1 .. SliceLen |-> SplitWrapAt(w * SliceLen + i - 1)]
            ELSE Len(out[w]) = NumFull

\* the first batch is itself the short final batch
C7_Witness ==
    /\ AllDone
    /\ split_batches
    /\ ~drop_last
    /\ num_processes = 2
    /\ batch_size = 4
    /\ batch_sampler = << <<0>> >>
    /\ out[0] = << <<0, 0>> >>
    /\ out[1] = << <<0, 0>> >>

\* ----------------------------------------------------------------------
\* C8: a process ends in the configuration error exactly when it was
\* constructed (directly or through prepare_data_loader) with split_batches
\* and a batch_size that is no multiple of num_processes; it then has no
\* partitioner, has pulled no upstream batch and has yielded nothing; in
\* every other configuration the constructed process has a batch sampler
\* and never ends in the error.
C8_ConfigError ==
    \A w \in Procs :
        /\ pc[w] # "new" =>
              (pc[w] = "ValueError"
                  <=> (split_batches /\ batch_size % num_processes # 0))
        /\ pc[w] = "ValueError" =>
              (shard[w] = "none" /\ idx[w] = -1 /\ out[w] = <<>>)
        /\ (pc[w] \notin {"new", "ValueError"}) => shard[w] # "none"

C8_Witness ==
    /\ split_batches
    /\ num_processes = 3
    /\ batch_size = 4
    /\ UpstreamLen = 2
    /\ \A w \in Procs : pc[w] = "ValueError" /\ out[w] = <<>>

\* ----------------------------------------------------------------------
\* C9: every step of a WholeBatch process w that yields, yields one batch.
\* While the upstream is still pulled, the step pulls the batch at position
\* r*num_processes + num_processes - 1 of some round r, that batch is
\* full, and what is yielded is w's batch number r, the upstream batch at
\* r*num_processes + w.  Any other yielding step comes after the upstream
\* is exhausted, without drop_last.  With drop_last a finished process has
\* yielded exactly the rounds whose batches are all present and full.
YieldStep(w) == out'[w] # out[w]

C9_StepOk(w) ==
    /\ Len(out'[w]) = Len(out[w]) + 1
    /\ SubSeq(out'[w], 1, Len(out[w])) = out[w]
    /\ IF pc[w] = "nosplit" /\ idx[w] + 1 < UpstreamLen
       THEN LET r == Len(out[w])
            IN /\ idx'[w] = r * num_processes + num_processes - 1
               /\ Len(batch_sampler[idx'[w] + 1]) = batch_size
               /\ out'[w][r + 1] = batch_sampler[r * num_processes + w + 1]
       ELSE /\ ~drop_last
            /\ idx[w] + 1 >= UpstreamLen
            /\ pc[w] \in {"nosplit", "cycle"}

C9_HoldUntilRoundComplete ==
    [][ \A w \in Procs :
           (shard[w] = "BatchSamplerShard" /\ ~split_batches) =>
               /\ YieldStep(w) => C9_StepOk(w)
               /\ (drop_last /\ pc'[w] = "done") => Len(out'[w]) = FullRounds ]_vars

\* a held batch of an incomplete final round has been yielded after the
\* rounds' own batches
C9_Witness ==
    /\ ~split_batches
    /\ ~drop_last
    /\ num_processes = 3
    /\ UpstreamLen = 3
    /\ LastShort
    /\ Done(0)
    /\ Len(out[0]) = 1
    /\ out[0][1] = batch_sampler[1]

\* ----------------------------------------------------------------------
\* the reported length, written out
ReportedLength ==
    IF UpstreamLen % num_processes = 0 \/ drop_last
    THEN UpstreamLen \div num_processes
    ELSE (UpstreamLen \div num_processes) + 1

\* C10: a finished process has yielded as many batches as its
\* BatchSamplerShard reports as its length, in both modes and under both
\* policies, and no process ends in an error of the iteration.
C10_LengthAgrees ==
    \A w \in Procs :
        /\ pc[w] # "UnboundLocalError"
        /\ Done(w) => (Len(out[w]) = ShardLen /\ ShardLen = ReportedLength)

====
